---- MODULE Spec2Model ----
(***************************************************************************)
(* A model of play_game.py: the negamax search with alpha-beta pruning     *)
(* (negamax, lines 174-199), the computer's half of the game loop (lines   *)
(* 229-234) and the feature extractor (extract_features, lines 20-171).    *)
(*                                                                         *)
(* The rules engine (python-chess) and the trained regressor are external: *)
(* the search sees them through legal_moves, is_game_over, turn, push, pop *)
(* and model.predict.  A game is therefore an input: a finite tree of      *)
(* positions, each with its ordered legal moves, its game-over flag and    *)
(* the regressor's output on its features.  The trees are drawn from a     *)
(* family indexed by `seed`.                                               *)
(***************************************************************************)
EXTENDS Integers, Sequences, FiniteSets, TLC

VARIABLES
    seed,       \* which game tree the rules engine and the regressor present
    args,       \* the root call's arguments: [alpha, beta, depth]
    board,      \* moves pushed on top of the root position (board.move_stack)
    stack,      \* the active negamax calls, root first
    result,     \* what the root call returned: [score, move], or NoResult
    status,     \* "searching", "done", "played", "crashed"; "position", "extracted"
    hist,       \* history: what the search has done so far
    fb,         \* the position handed to extract_features
    features    \* the vector extract_features returned

vars == <<seed, args, board, stack, result, status, hist, fb, features>>

-----------------------------------------------------------------------------
(* Bounds of the model *)

MaxSeed == 99
MaxBranch == 3
MaxPly == 3
MaxDepth == 3
MaxVal == 2

\* float('inf'): beyond every leaf evaluation
Inf == MaxVal + 1
Scores == (0 - Inf)..Inf
None == 0
WHITE == TRUE
BLACK == FALSE
NoResult == [score |-> 0, move |-> None, none |-> TRUE]

-----------------------------------------------------------------------------
(* The rules engine and the regressor, as the search sees them *)

\* a number for the position reached from the root by the moves of `path`
RECURSIVE Code(_)
Code(path) ==
    IF path = <<>> THEN 1
    ELSE Code(SubSeq(path, 1, Len(path) - 1)) * (MaxBranch + 1) + path[Len(path)]

\* what game `s` holds at place n of its tree: a number in 0..1008
Mix(s, n) ==
    ((((s + 5) * (n + 7)) % 1009) * ((s + 3 * n + 13) % 1009) + (s * s) + n) % 1009

\* len(list(board.legal_moves)) at the position reached by `path`
NumLegal(s, path) ==
    IF Len(path) >= MaxPly THEN 0
    ELSE LET r == Mix(s, 3 * Code(path)) % 11
         IN  IF r = 0 THEN 0 ELSE 1 + (r % MaxBranch)

\* board.legal_moves, in generation order: moves are numbered 1..n
LegalMoves(s, path) == [k \in 1..NumLegal(s, path) |-> k]

\* board.is_game_over(): no legal move (mate, stalemate) or a draw by rule
IsGameOver(s, path) ==
    \/ NumLegal(s, path) = 0
    \/ Mix(s, 3 * Code(path) + 1) % 11 = 0

\* board.turn: the sides alternate, White moves first in even seeds
Turn(s, path) == IF (s + Len(path)) % 2 = 0 THEN WHITE ELSE BLACK

\* model.predict([extract_features(board)])[0]
Predict(s, path) == (Mix(s, 3 * Code(path) + 2) % (2 * MaxVal + 1)) - MaxVal

-----------------------------------------------------------------------------
(* negamax, step by step *)

IsLeaf(depth, over) == depth = 0 \/ over

\* the sign adjustment left out
LeafScoreRaw(eval, turn) == eval

LeafScore(eval, turn) == IF turn = WHITE THEN eval ELSE 0 - eval

\* the running maximum started at zero
InitMaxEvalZero == Inf - Inf

InitMaxEval == 0 - Inf

\* the window swapped but alpha not negated
ChildWindowHalfNegated(alpha, beta) == [alpha |-> 0 - beta, beta |-> alpha]

ChildWindow(alpha, beta) == [alpha |-> 0 - beta, beta |-> 0 - alpha]

\* a later move of equal value replaces the best move
BetterOrEqual(eval, max_eval) == eval >= max_eval

Better(eval, max_eval) == eval > max_eval

RaiseAlpha(alpha, eval) == IF eval > alpha THEN eval ELSE alpha

\* the cutoff tested against the child's bound
CutoffChildBound(alpha, beta) == alpha >= 0 - beta

\* the cutoff missed when alpha meets beta
CutoffStrict(alpha, beta) == alpha > beta

Cutoff(alpha, beta) == alpha >= beta

PushMove(b, move) == Append(b, move)

\* the move left on the board
PopMoveForgotten(b) == b

PopMove(b) == SubSeq(b, 1, Len(b) - 1)

Frame(path, alpha, beta, depth) ==
    [path |-> path, alpha0 |-> alpha, alpha |-> alpha, beta |-> beta,
     depth |-> depth, max_eval |-> 0, best_move |-> None,
     moves |-> <<>>, i |-> 0, eval |-> 0, pc |-> "entry"]

Top == stack[Len(stack)]

SetTop(f) == [stack EXCEPT ![Len(stack)] = f]

\* a return statement: the frame goes, the value reaches the caller's
\* `eval, _ = negamax(...)`, or the root's caller
ReturnValue(score, move) ==
    IF Len(stack) = 1
    THEN /\ stack' = <<>>
         /\ result' = [score |-> score, move |-> move, none |-> FALSE]
         /\ status' = "done"
    ELSE /\ stack' = [SubSeq(stack, 1, Len(stack) - 1)
                        EXCEPT ![Len(stack) - 1].eval = score,
                               ![Len(stack) - 1].pc = "undo"]
         /\ UNCHANGED <<result, status>>

\* lines 175-180.  extract_features (line 176) lists the legal moves to
\* count them (line 131): one more enumeration, and no move is pushed.
Leaf ==
    /\ status = "searching"
    /\ Top.pc = "entry"
    /\ IsLeaf(Top.depth, IsGameOver(seed, board))
    /\ ReturnValue(LeafScore(Predict(seed, board), Turn(seed, board)), None)
    /\ hist' = [hist EXCEPT !.enumerated = @ + 1,
                            !.leaves = Append(@, [path |-> board,
                                                  depth |-> Top.depth])]
    /\ UNCHANGED <<seed, args, board, fb, features>>

\* lines 182-185: the loop is set up over board.legal_moves
Expand ==
    /\ status = "searching"
    /\ Top.pc = "entry"
    /\ ~IsLeaf(Top.depth, IsGameOver(seed, board))
    /\ stack' = SetTop([Top EXCEPT !.max_eval = InitMaxEval,
                                   !.best_move = None,
                                   !.moves = LegalMoves(seed, board),
                                   !.i = 1,
                                   !.pc = "loop"])
    /\ hist' = [hist EXCEPT !.enumerated = @ + 1]
    /\ UNCHANGED <<seed, args, board, result, status, fb, features>>

\* lines 185-187: the next move is pushed and searched
Descend ==
    /\ status = "searching"
    /\ Top.pc = "loop"
    /\ Top.i <= Len(Top.moves)
    /\ LET move == Top.moves[Top.i]
           w == ChildWindow(Top.alpha, Top.beta)
           child == PushMove(board, move)
       IN  /\ board' = child
           /\ stack' = Append(SetTop([Top EXCEPT !.pc = "wait"]),
                              Frame(child, w.alpha, w.beta, Top.depth - 1))
           /\ hist' = [hist EXCEPT !.pushes = @ + 1,
                                   !.tried = IF Len(stack) = 1
                                             THEN Append(@, move) ELSE @]
    /\ UNCHANGED <<seed, args, result, status, fb, features>>

\* line 185: no move is left
Exhausted ==
    /\ status = "searching"
    /\ Top.pc = "loop"
    /\ Top.i > Len(Top.moves)
    /\ stack' = SetTop([Top EXCEPT !.pc = "ret"])
    /\ UNCHANGED <<seed, args, board, result, status, hist, fb, features>>

\* lines 188-189
Undo ==
    /\ status = "searching"
    /\ Top.pc = "undo"
    /\ board' = PopMove(board)
    /\ stack' = SetTop([Top EXCEPT !.eval = 0 - Top.eval, !.pc = "update"])
    /\ hist' = [hist EXCEPT !.pops = @ + 1]
    /\ UNCHANGED <<seed, args, result, status, fb, features>>

\* lines 191-197
Update ==
    /\ status = "searching"
    /\ Top.pc = "update"
    /\ LET better == Better(Top.eval, Top.max_eval)
           alpha == RaiseAlpha(Top.alpha, Top.eval)
           cut == Cutoff(alpha, Top.beta)
       IN  /\ stack' = SetTop([Top EXCEPT
                    !.max_eval = IF better THEN Top.eval ELSE @,
                    !.best_move = IF better THEN Top.moves[Top.i] ELSE @,
                    !.alpha = alpha,
                    !.i = IF cut THEN @ ELSE @ + 1,
                    !.pc = IF cut THEN "ret" ELSE "loop"])
           /\ hist' = [hist EXCEPT
                    !.cutoffs = IF cut THEN @ + 1 ELSE @,
                    !.rootcut = @ \/ (cut /\ Len(stack) = 1)]
    /\ UNCHANGED <<seed, args, board, result, status, fb, features>>

\* line 199
ReturnBest ==
    /\ status = "searching"
    /\ Top.pc = "ret"
    /\ ReturnValue(Top.max_eval, Top.best_move)
    /\ UNCHANGED <<seed, args, board, hist, fb, features>>

-----------------------------------------------------------------------------
(* negamax as a function of its arguments: the same code, call by call *)

RECURSIVE Negamax(_, _, _, _, _)
RECURSIVE MoveLoop(_, _, _, _, _, _, _, _, _)
Negamax(s, path, alpha, beta, depth) ==
    IF IsLeaf(depth, IsGameOver(s, path))
    THEN [score |-> LeafScore(Predict(s, path), Turn(s, path)), move |-> None]
    ELSE MoveLoop(s, path, alpha, beta, depth, LegalMoves(s, path), 1,
                  InitMaxEval, None)

MoveLoop(s, path, alpha, beta, depth, moves, i, max_eval, best_move) ==
    IF i > Len(moves)
    THEN [score |-> max_eval, move |-> best_move]
    ELSE LET w == ChildWindow(alpha, beta)
             sub == Negamax(s, PushMove(path, moves[i]), w.alpha, w.beta,
                            depth - 1)
             eval == 0 - sub.score
             better == Better(eval, max_eval)
             max2 == IF better THEN eval ELSE max_eval
             best2 == IF better THEN moves[i] ELSE best_move
             alpha2 == RaiseAlpha(alpha, eval)
         IN  IF Cutoff(alpha2, beta)
             THEN [score |-> max2, move |-> best2]
             ELSE MoveLoop(s, path, alpha2, beta, depth, moves, i + 1,
                           max2, best2)

-----------------------------------------------------------------------------
(* The game loop's use of the search, lines 229-234 *)

FromGameLoop ==
    /\ args = [alpha |-> 0 - Inf, beta |-> Inf, depth |-> 2]
    /\ ~IsGameOver(seed, <<>>)

\* line 234: board.push(best_move); pushing None raises
Play ==
    /\ status = "done"
    /\ FromGameLoop
    /\ IF result.move = None
       THEN status' = "crashed" /\ board' = board
       ELSE status' = "played" /\ board' = PushMove(board, result.move)
    /\ UNCHANGED <<seed, args, stack, result, hist, fb, features>>

-----------------------------------------------------------------------------
(* extract_features, lines 20-171.  A position is what the rules engine    *)
(* answers about it: the piece on each occupied square, the side to move,  *)
(* the castling rights, the number of legal moves, the full-move counter.  *)

PAWN == "pawn"
KNIGHT == "knight"
BISHOP == "bishop"
ROOK == "rook"
QUEEN == "queen"
KING == "king"
Colors == {WHITE, BLACK}

\* PIECE_VALUES, lines 9-15, and the order of its keys
PIECE_VALUES == [t \in {PAWN, KNIGHT, BISHOP, ROOK, QUEEN} |->
    CASE t = PAWN -> 1 [] t = KNIGHT -> 3 [] t = BISHOP -> 3
      [] t = ROOK -> 5 [] t = QUEEN -> 9]
PieceOrder == <<PAWN, KNIGHT, BISHOP, ROOK, QUEEN>>

\* CENTER_SQUARES, line 17: D4, E4, D5, E5
CENTER_SQUARES == {27, 28, 35, 36}

SQUARES == 0..63
square_rank(sq) == sq \div 8
square_file(sq) == sq % 8
NoSquare == 0 - 1

Abs(x) == IF x < 0 THEN 0 - x ELSE x
Sign(x) == IF x < 0 THEN 0 - 1 ELSE IF x > 0 THEN 1 ELSE 0

Occupied(b) == DOMAIN b.pieces

\* the squares strictly between two squares of one rank, file or diagonal
Between(a, sq) ==
    LET dr == square_rank(sq) - square_rank(a)
        df == square_file(sq) - square_file(a)
        n == IF Abs(dr) > Abs(df) THEN Abs(dr) ELSE Abs(df)
    IN  {a + k * (8 * Sign(dr) + Sign(df)) : k \in 1..(n - 1)}

\* whether the piece on square a attacks square sq (pins are ignored)
Attacks(b, a, sq) ==
    LET p == b.pieces[a]
        dr == square_rank(sq) - square_rank(a)
        df == square_file(sq) - square_file(a)
        clear == Between(a, sq) \cap Occupied(b) = {}
        straight == (dr = 0 \/ df = 0) /\ a # sq
        diagonal == Abs(dr) = Abs(df) /\ a # sq
    IN  CASE p.ptype = PAWN ->
                Abs(df) = 1 /\ dr = (IF p.color = WHITE THEN 1 ELSE 0 - 1)
          [] p.ptype = KNIGHT -> {Abs(dr), Abs(df)} = {1, 2}
          [] p.ptype = KING -> a # sq /\ Abs(dr) <= 1 /\ Abs(df) <= 1
          [] p.ptype = ROOK -> straight /\ clear
          [] p.ptype = BISHOP -> diagonal /\ clear
          [] p.ptype = QUEEN -> (straight \/ diagonal) /\ clear

\* board.attackers(color, square)
Attackers(b, color, sq) ==
    {a \in Occupied(b) : b.pieces[a].color = color /\ Attacks(b, a, sq)}

\* board.king(color)
King(b, color) ==
    LET ks == {a \in Occupied(b) :
                  b.pieces[a].color = color /\ b.pieces[a].ptype = KING}
    IN  IF ks = {} THEN NoSquare ELSE CHOOSE a \in ks : TRUE

\* int(x) of a bool
int(x) == IF x THEN 1 ELSE 0

\* the accumulators of lines 23-37
InitAcc ==
    [material_white |-> 0, material_black |-> 0,
     piece_counts |-> [k \in Colors \X DOMAIN PIECE_VALUES |-> 0],
     center_control_white |-> 0, center_control_black |-> 0,
     white_in_black_half |-> 0, black_in_white_half |-> 0,
     pawn_files |-> [c \in Colors |-> {}],
     all_pawns |-> [c \in Colors |-> <<>>],
     open_files |-> 0..7,
     halfopen_files |-> [c \in Colors |-> {}],
     outpost_knights |-> [c \in Colors |-> 0],
     developed_minors |-> [c \in Colors |-> 0],
     defended_pieces |-> [c \in Colors |-> 0]]

\* one turn of the loop over the squares, lines 43-97
VisitSquare(b, square, acc) ==
    IF square \notin Occupied(b) THEN acc
    ELSE
    LET piece == b.pieces[square]
        color == piece.color
        ptype == piece.ptype
        rank == square_rank(square)
        file == square_file(square)
        value == IF ptype \in DOMAIN PIECE_VALUES THEN PIECE_VALUES[ptype] ELSE 0
        centre == square \in CENTER_SQUARES
        pawn == ptype = PAWN
        far == (color = WHITE /\ rank >= 4) \/ (color = BLACK /\ rank <= 3)
        outpost ==
            /\ ptype = KNIGHT
            /\ far
            /\ ~\E a \in Attackers(b, ~color, square) : b.pieces[a].ptype = PAWN
        developed ==
            /\ ptype \in {BISHOP, KNIGHT}
            /\ (color = WHITE /\ rank > 0) \/ (color = BLACK /\ rank < 7)
        defended == Cardinality(Attackers(b, color, square)) > 0
    IN  [acc EXCEPT
          !.material_white = IF color = WHITE THEN @ + value ELSE @,
          !.material_black = IF color = WHITE THEN @ ELSE @ + value,
          !.piece_counts = IF ptype \in DOMAIN PIECE_VALUES
                           THEN [@ EXCEPT ![<<color, ptype>>] = @ + 1] ELSE @,
          !.center_control_white = IF centre /\ color = WHITE THEN @ + 1 ELSE @,
          !.center_control_black = IF centre /\ color # WHITE THEN @ + 1 ELSE @,
          !.white_in_black_half = IF color = WHITE /\ rank >= 4 THEN @ + 1 ELSE @,
          !.black_in_white_half = IF color = BLACK /\ rank <= 3 THEN @ + 1 ELSE @,
          !.pawn_files = IF pawn THEN [@ EXCEPT ![color] = @ \cup {file}] ELSE @,
          !.all_pawns = IF pawn THEN [@ EXCEPT ![color] = Append(@, square)] ELSE @,
          !.open_files = IF pawn THEN @ \ {file} ELSE @,
          !.halfopen_files = IF pawn THEN [@ EXCEPT ![color] = @ \cup {file}] ELSE @,
          !.outpost_knights = IF outpost THEN [@ EXCEPT ![color] = @ + 1] ELSE @,
          !.developed_minors = IF developed THEN [@ EXCEPT ![color] = @ + 1] ELSE @,
          !.defended_pieces = IF defended THEN [@ EXCEPT ![color] = @ + 1] ELSE @]

\* the loop of line 42, from `square` on: the empty squares are passed
\* over (lines 44-45) up to the next piece
RECURSIVE ScanSquares(_, _, _)
ScanSquares(b, square, acc) ==
    LET rest == {a \in Occupied(b) : a >= square}
    IN  IF rest = {} THEN acc
        ELSE LET next == CHOOSE a \in rest : \A a2 \in rest : a <= a2
             IN  ScanSquares(b, next + 1, VisitSquare(b, next, acc))

\* lines 100-102
MaterialFields(acc) ==
    <<acc.material_white, acc.material_black,
      acc.material_white - acc.material_black>>

\* only the kinds that are on the board are reported
RECURSIVE PieceCountFieldsPresent(_, _)
PieceCountFieldsPresent(acc, k) ==
    IF k > Len(PieceOrder) THEN <<>>
    ELSE LET w == acc.piece_counts[<<WHITE, PieceOrder[k]>>]
             bl == acc.piece_counts[<<BLACK, PieceOrder[k]>>]
         IN  (IF w + bl = 0 THEN <<>> ELSE <<w, bl>>)
             \o PieceCountFieldsPresent(acc, k + 1)

\* lines 105-107, from the k-th piece kind on
RECURSIVE PieceCountFields(_, _)
PieceCountFields(acc, k) ==
    IF k > Len(PieceOrder) THEN <<>>
    ELSE <<acc.piece_counts[<<WHITE, PieceOrder[k]>>],
           acc.piece_counts[<<BLACK, PieceOrder[k]>>]>>
         \o PieceCountFields(acc, k + 1)

\* lines 110-113
CastlingFields(b) ==
    <<int(b.rights.wk), int(b.rights.wq), int(b.rights.bk), int(b.rights.bq)>>

\* the number of pawns of `color` on `file`, line 137
PawnsOnFile(acc, color, file) ==
    Len(SelectSeq(acc.all_pawns[color], LAMBDA sq : square_file(sq) = file))

\* a file counts when pawns of either colour share it
DoubledPawnsAnyColour(acc) ==
    Cardinality({cf \in {<<c, f>> \in Colors \X (0..7) : f \in acc.pawn_files[c]} :
        PawnsOnFile(acc, WHITE, cf[2]) + PawnsOnFile(acc, BLACK, cf[2]) > 1})

\* lines 136-140: a sum of booleans over (color, file of that color's pawns)
DoubledPawns(acc) ==
    Cardinality({cf \in {<<c, f>> \in Colors \X (0..7) : f \in acc.pawn_files[c]} :
        PawnsOnFile(acc, cf[1], cf[2]) > 1})

\* lines 143-150
IsolatedPawns(acc) ==
    Cardinality({cf \in {<<c, f>> \in Colors \X (0..7) : f \in acc.pawn_files[c]} :
        \A offset \in {0 - 1, 1} : cf[2] + offset \notin acc.pawn_files[cf[1]]})

extract_features(b) ==
    LET acc == ScanSquares(b, 0, InitAcc)
    IN  MaterialFields(acc)
        \o PieceCountFields(acc, 1)
        \o CastlingFields(b)
        \o <<King(b, WHITE), King(b, BLACK)>>
        \o <<int(b.turn)>>
        \o <<acc.center_control_white, acc.center_control_black>>
        \o <<acc.white_in_black_half, acc.black_in_white_half>>
        \o <<b.mobility, b.fullmove>>
        \o <<DoubledPawns(acc)>>
        \o <<IsolatedPawns(acc)>>
        \o <<Cardinality(acc.halfopen_files[WHITE]),
             Cardinality(acc.halfopen_files[BLACK])>>
        \o <<Cardinality(acc.open_files)>>
        \o <<acc.outpost_knights[WHITE], acc.outpost_knights[BLACK]>>
        \o <<acc.developed_minors[WHITE], acc.developed_minors[BLACK]>>
        \o <<acc.defended_pieces[WHITE], acc.defended_pieces[BLACK]>>

\* features = extract_features(board), line 176
ExtractFeatures ==
    /\ status = "position"
    /\ features' = extract_features(fb)
    /\ status' = "extracted"
    /\ UNCHANGED <<seed, args, board, stack, result, hist, fb>>

-----------------------------------------------------------------------------

NoHist == [enumerated |-> 0, leaves |-> <<>>, pushes |-> 0, pops |-> 0,
           tried |-> <<>>, cutoffs |-> 0, rootcut |-> FALSE]

NoBoard == <<>>

Init ==
    /\ seed \in 0..MaxSeed
    /\ args \in [alpha : Scores, beta : Scores, depth : (0 - 1)..MaxDepth]
    /\ board = <<>>
    /\ stack = <<Frame(<<>>, args.alpha, args.beta, args.depth)>>
    /\ result = NoResult
    /\ status = "searching"
    /\ hist = NoHist
    /\ fb = NoBoard
    /\ features = <<>>

Next ==
    \/ Leaf
    \/ Expand
    \/ Descend
    \/ Exhausted
    \/ Undo
    \/ Update
    \/ ReturnBest
    \/ Play

Spec == Init /\ [][Next]_vars

-----------------------------------------------------------------------------
(* The positions extract_features is run on: the two kings at home, the    *)
(* officers of one of a few set-ups, and up to MaxPawns pawns of either    *)
(* colour on the files 0..MaxFile and the ranks 2..MaxPawnRank.            *)

MaxPawns == 3
MaxFile == 1
MaxPawnRank == 4

Piece(color, ptype) == [color |-> color, ptype |-> ptype]

Kings == (4 :> Piece(WHITE, KING)) @@ (60 :> Piece(BLACK, KING))

NoRights == [wk |-> FALSE, wq |-> FALSE, bk |-> FALSE, bq |-> FALSE]

Setups == <<
    \* bare kings
    [officers |-> <<>>, turn |-> WHITE, rights |-> NoRights,
     mobility |-> 5, fullmove |-> 40],
    \* the four rooks at home, every castling right kept
    [officers |-> (0 :> Piece(WHITE, ROOK)) @@ (7 :> Piece(WHITE, ROOK))
                  @@ (56 :> Piece(BLACK, ROOK)) @@ (63 :> Piece(BLACK, ROOK)),
     turn |-> BLACK,
     rights |-> [wk |-> TRUE, wq |-> TRUE, bk |-> TRUE, bq |-> TRUE],
     mobility |-> 20, fullmove |-> 1],
    \* a knight each in the other side's half: e5 and b4
    [officers |-> (36 :> Piece(WHITE, KNIGHT)) @@ (25 :> Piece(BLACK, KNIGHT)),
     turn |-> WHITE, rights |-> NoRights, mobility |-> 14, fullmove |-> 23],
    \* bishop c1, queen d1, black bishop g7, white keeps the queenside right
    \* with the rook on a1
    [officers |-> (0 :> Piece(WHITE, ROOK)) @@ (2 :> Piece(WHITE, BISHOP))
                  @@ (3 :> Piece(WHITE, QUEEN)) @@ (54 :> Piece(BLACK, BISHOP)),
     turn |-> BLACK,
     rights |-> [wk |-> FALSE, wq |-> TRUE, bk |-> FALSE, bq |-> FALSE],
     mobility |-> 9, fullmove |-> 12] >>

PawnSquares(setup) ==
    {sq \in SQUARES : /\ square_file(sq) <= MaxFile
                      /\ square_rank(sq) \in 2..MaxPawnRank
                      /\ sq \notin DOMAIN setup.officers}

Position(setup, whitePawns, blackPawns) ==
    [pieces |-> [sq \in DOMAIN Kings \cup DOMAIN setup.officers
                        \cup whitePawns \cup blackPawns |->
                    IF sq \in DOMAIN Kings THEN Kings[sq]
                    ELSE IF sq \in whitePawns THEN Piece(WHITE, PAWN)
                    ELSE IF sq \in blackPawns THEN Piece(BLACK, PAWN)
                    ELSE setup.officers[sq]],
     turn |-> setup.turn, rights |-> setup.rights,
     mobility |-> setup.mobility, fullmove |-> setup.fullmove]

InitFeatures ==
    /\ \E k \in 1..Len(Setups) :
       \E wp \in SUBSET PawnSquares(Setups[k]) :
       \E bp \in SUBSET (PawnSquares(Setups[k]) \ wp) :
          /\ Cardinality(wp) + Cardinality(bp) <= MaxPawns
          /\ fb = Position(Setups[k], wp, bp)
    /\ features = <<>>
    /\ status = "position"
    /\ seed = 0
    /\ args = [alpha |-> 0 - Inf, beta |-> Inf, depth |-> 0]
    /\ board = <<>>
    /\ stack = <<>>
    /\ result = NoResult
    /\ hist = NoHist

NextFeatures == ExtractFeatures

SpecFeatures == InitFeatures /\ [][NextFeatures]_vars

-----------------------------------------------------------------------------
(* The feature vector, stated on the position itself *)

Extracted == status = "extracted"

\* the squares holding a piece of this colour and kind
SquaresOf(color, ptype) ==
    {sq \in DOMAIN fb.pieces :
        fb.pieces[sq].color = color /\ fb.pieces[sq].ptype = ptype}

PawnsOn(color, file) == {sq \in SquaresOf(color, PAWN) : sq % 8 = file}

\* the files on which this side has more than one pawn
DoubledFiles(color) == {f \in 0..7 : Cardinality(PawnsOn(color, f)) > 1}

\* 3 material, 10 piece counts, 4 castling flags, 2 king squares, 1 side to
\* move, 2 centre, 2 opponent-half, 1 mobility, 1 full-move counter,
\* 1 doubled, 1 isolated, 2 half-open, 1 open, 2 outpost, 2 developed,
\* 2 defended
FeatureLength == 3 + 10 + 4 + 2 + 1 + 2 + 2 + 1 + 1 + 1 + 1 + 2 + 1 + 2 + 2 + 2

\* the place of the doubled-pawn field: after material, piece counts,
\* castling, kings, side to move, centre, opponent half, mobility, counter
DoubledField == 3 + 10 + 4 + 2 + 1 + 2 + 2 + 1 + 1 + 1

\* C7: whatever the material, the vector has the same 37 fields in the same
\* order: material, piece counts by kind and side, castling flags, king
\* squares, side to move, centre, opponent half, mobility, full-move counter,
\* doubled, isolated, half-open, open, outposts, developed, defended.
C7_FeatureVectorLength ==
    Extracted =>
        /\ Len(features) = FeatureLength
        /\ features[3] = features[1] - features[2]
        /\ \A k \in 1..5 :
              LET kind == <<PAWN, KNIGHT, BISHOP, ROOK, QUEEN>>[k]
              IN  /\ features[3 + 2 * k - 1] = Cardinality(SquaresOf(WHITE, kind))
                  /\ features[3 + 2 * k] = Cardinality(SquaresOf(BLACK, kind))
        /\ features[14] = (IF fb.rights.wk THEN 1 ELSE 0)
        /\ features[15] = (IF fb.rights.wq THEN 1 ELSE 0)
        /\ features[16] = (IF fb.rights.bk THEN 1 ELSE 0)
        /\ features[17] = (IF fb.rights.bq THEN 1 ELSE 0)
        /\ SquaresOf(WHITE, KING) = {features[18]}
        /\ SquaresOf(BLACK, KING) = {features[19]}
        /\ features[20] = (IF fb.turn = WHITE THEN 1 ELSE 0)
        /\ features[21] = Cardinality({sq \in {27, 28, 35, 36} \cap DOMAIN fb.pieces :
                                          fb.pieces[sq].color = WHITE})
        /\ features[25] = fb.mobility
        /\ features[26] = fb.fullmove
        /\ features[29] = Cardinality({f \in 0..7 : PawnsOn(WHITE, f) # {}})
        /\ features[30] = Cardinality({f \in 0..7 : PawnsOn(BLACK, f) # {}})
        /\ features[31] = Cardinality({f \in 0..7 :
                              PawnsOn(WHITE, f) = {} /\ PawnsOn(BLACK, f) = {}})
        /\ \A k \in 32..37 : features[k] \in 0..Cardinality(DOMAIN fb.pieces)

\* the features of a position with the two kings, MaxPawns white pawns and
\* nothing else were extracted: every other count is zero
C7_Witness ==
    /\ Extracted
    /\ Len(features) = FeatureLength
    /\ Cardinality(DOMAIN fb.pieces) = 2 + MaxPawns
    /\ SquaresOf(BLACK, PAWN) = {}
    /\ SquaresOf(WHITE, KNIGHT) = {}

\* C8: the doubled-pawn field is the number of (side, file) pairs where the
\* side has more than one pawn on the file; a side without pawns adds 0; one
\* doubled file for one side and none for the other gives 1.
C8_DoubledPawns ==
    Extracted =>
        /\ features[DoubledField] =
              Cardinality(DoubledFiles(WHITE)) + Cardinality(DoubledFiles(BLACK))
        /\ \A c \in Colors :
              (Cardinality(DoubledFiles(c)) = 1 /\ DoubledFiles(~c) = {}) =>
                  features[DoubledField] = 1

\* White has doubled pawns on one file, Black a single pawn on that file
C8_Witness ==
    /\ Extracted
    /\ Cardinality(DoubledFiles(WHITE)) = 1
    /\ DoubledFiles(BLACK) = {}
    /\ \E f \in DoubledFiles(WHITE) : Cardinality(PawnsOn(BLACK, f)) = 1
    /\ features[DoubledField] = 1

-----------------------------------------------------------------------------
(* The reference search: plain negamax that visits every legal move of     *)
(* every node and keeps the first move with the strictly greatest value    *)

RECURSIVE FullSearch(_, _, _)
RECURSIVE FullLoop(_, _, _, _, _, _, _)
FullSearch(s, path, depth) ==
    IF depth = 0 \/ IsGameOver(s, path)
    THEN [score |-> IF Turn(s, path) = WHITE THEN Predict(s, path)
                    ELSE 0 - Predict(s, path),
          move |-> None]
    ELSE FullLoop(s, path, depth, NumLegal(s, path), 1, 0 - Inf, None)

FullLoop(s, path, depth, n, k, best, bestMove) ==
    IF k > n
    THEN [score |-> best, move |-> bestMove]
    ELSE LET v == 0 - FullSearch(s, Append(path, k), depth - 1).score
         IN  IF v > best
             THEN FullLoop(s, path, depth, n, k + 1, v, k)
             ELSE FullLoop(s, path, depth, n, k + 1, best, bestMove)

Returned == result.none = FALSE
FullWindow == args.alpha = 0 - Inf /\ args.beta = Inf
Root == <<>>

\* The step-by-step search and the call-by-call function are the same code:
\* they return the same pair for the same arguments.
StepwiseAgrees ==
    Returned =>
        LET r == Negamax(seed, Root, args.alpha, args.beta, args.depth)
        IN  result.score = r.score /\ result.move = r.move

\* C1: with the full window and a depth >= 0, the search with the cutoff
\* returns the same (score, move) as the reference search without it.
C1_PruningEquivalence ==
    (Returned /\ FullWindow /\ args.depth >= 0) =>
        LET ref == FullSearch(seed, Root, args.depth)
        IN  result.score = ref.score /\ result.move = ref.move

\* a search that cut off below the root, over several root moves, has returned
C1_Witness ==
    /\ Returned /\ FullWindow /\ args.depth >= 2
    /\ hist.cutoffs > 0
    /\ Len(hist.tried) >= 2
    /\ result.move # None

\* a call that line 175 sends to the leaf branch is about to run
LeafCall ==
    /\ status = "searching"
    /\ Top.pc = "entry"
    /\ (Top.depth = 0 \/ IsGameOver(seed, board))

\* the call returns (s, null): s reaches the caller, the null move reaches
\* the root's caller (a recursive caller discards it)
LeafDelivers ==
    LET raw == Predict(seed, board)
        s == IF Turn(seed, board) = WHITE THEN raw ELSE 0 - raw
    IN  IF Len(stack) = 1
        THEN result' = [score |-> s, move |-> None, none |-> FALSE]
        ELSE /\ Len(stack') = Len(stack) - 1
             /\ stack'[Len(stack')].eval = s
             /\ stack'[Len(stack')].pc = "undo"

\* no move is applied, undone or recursed into
LeafTouchesNoMove ==
    /\ board' = board
    /\ hist'.pushes = hist.pushes
    /\ hist'.pops = hist.pops
    /\ hist'.tried = hist.tried
    /\ Len(stack') = Len(stack) - 1
    /\ hist'.leaves = Append(hist.leaves, [path |-> board, depth |-> Top.depth])

\* C2 as stated: at depth 0 or on a position that is over, negamax returns
\* the sign-adjusted evaluation and null without enumerating, applying or
\* recursing into any move.
C2_LeafReturnEnumeratesNothing ==
    [][LeafCall =>
        /\ LeafDelivers
        /\ LeafTouchesNoMove
        /\ hist'.enumerated = hist.enumerated]_vars

\* C2 as amended: the same return, with no move applied or recursed into;
\* the legal moves are enumerated once, by extract_features, which counts
\* them for the mobility field.
C2_LeafReturn ==
    [][LeafCall =>
        /\ LeafDelivers
        /\ LeafTouchesNoMove
        /\ hist'.enumerated = hist.enumerated + 1]_vars

\* a root call with depth >= 1 on a position that is over, Black to move,
\* has returned the negated evaluation
C2_Witness ==
    /\ Returned
    /\ args.depth >= 1
    /\ IsGameOver(seed, Root)
    /\ NumLegal(seed, Root) > 0
    /\ Turn(seed, Root) = BLACK
    /\ Predict(seed, Root) # 0
    /\ result.score = 0 - Predict(seed, Root)
    /\ result.move = None
    /\ hist.pushes = 0
    /\ hist.enumerated = 1

\* C3: a score returned strictly inside a narrower window is the score the
\* same position and depth give with any wider window.
C3_WindowMonotonicity ==
    (Returned /\ args.alpha < result.score /\ result.score < args.beta) =>
        \A a \in Scores, b \in Scores :
            (a <= args.alpha /\ args.beta <= b) =>
                Negamax(seed, Root, a, b, args.depth).score = result.score

\* a narrowed search cut off, and still returned a score inside its window
C3_Witness ==
    /\ Returned /\ args.alpha < result.score /\ result.score < args.beta
    /\ args.alpha > 0 - Inf /\ args.beta < Inf
    /\ args.depth >= 2
    /\ hist.cutoffs > 0

MaxOver(S) == CHOOSE x \in S : \A y \in S : y <= x

\* C4: with the full window, a depth >= 1 and a position that is not over,
\* the root applies every legal move once, in generation order, never cuts
\* off, and returns the best-scored move; at depth 1 each move is evaluated
\* at depth 0.
C4_NoRootMoveOmitted ==
    (Returned /\ FullWindow /\ args.depth >= 1 /\ ~IsGameOver(seed, Root)) =>
        LET n == NumLegal(seed, Root)
            value(k) == 0 - FullSearch(seed, <<k>>, args.depth - 1).score
        IN  /\ hist.tried = [k \in 1..n |-> k]
            /\ ~hist.rootcut
            /\ result.move \in 1..n
            /\ result.score = MaxOver({value(k) : k \in 1..n})
            /\ value(result.move) = result.score
            /\ args.depth = 1 =>
                   hist.leaves = [k \in 1..n |-> [path |-> <<k>>, depth |-> 0]]

\* a depth-1 search from a position with the most legal moves has returned
C4_Witness ==
    /\ Returned /\ FullWindow /\ args.depth = 1 /\ ~IsGameOver(seed, Root)
    /\ Len(hist.tried) = MaxBranch
    /\ Len(hist.leaves) = MaxBranch

\* C5: a negative depth, or alpha > beta on entry, ends at once in a fatal
\* outcome: no move is searched and no (score, move) is returned.
C5_InvalidParametersFailFast ==
    (args.depth < 0 \/ args.alpha > args.beta) =>
        /\ result.none
        /\ hist.pushes = 0
        /\ status # "done"

\* C6: (a) the moves applied on top of the root are the moves the active
\* calls are in the middle of trying, one per call that has pushed and not
\* yet popped; (b) a call that is about to return, or to try its next move,
\* sees the position it was entered with.
C6_PushPopDiscipline ==
    /\ hist.pushes - hist.pops = Len(board) - (IF status = "played" THEN 1 ELSE 0)
    /\ status = "searching" =>
        /\ \A k \in 1..Len(stack) :
              /\ stack[k].path = SubSeq(board, 1, k - 1)
              /\ k < Len(stack) =>
                    /\ stack[k].pc = "wait"
                    /\ board[k] = stack[k].moves[stack[k].i]
        /\ Top.pc = "undo" =>
              /\ Len(board) = Len(stack)
              /\ board[Len(stack)] = Top.moves[Top.i]
        /\ Top.pc # "undo" => board = Top.path
    /\ status = "done" => board = Root

\* a call below the root has just been cut off, its move already undone
C6_Witness ==
    /\ status = "searching"
    /\ Len(stack) >= 2
    /\ Top.pc = "ret"
    /\ Top.i <= Len(Top.moves)
    /\ board = Top.path
    /\ hist.pops >= 2

\* C9: from a root window with alpha <= beta, every call is entered with
\* alpha <= beta, a child's window is the negation of its parent's current
\* (alpha, beta), alpha is the entry alpha raised by the values so far, and
\* the loop goes on exactly while alpha < beta.
C9_WindowInvariant ==
    args.alpha <= args.beta =>
        \A k \in 1..Len(stack) :
            LET f == stack[k]
            IN  /\ f.alpha0 <= f.beta
                /\ k > 1 => /\ f.alpha0 = 0 - stack[k - 1].beta
                            /\ f.beta = 0 - stack[k - 1].alpha
                /\ f.pc \in {"loop", "wait", "undo", "ret"} =>
                       f.alpha = IF f.max_eval > f.alpha0 THEN f.max_eval
                                 ELSE f.alpha0
                /\ (f.pc \in {"loop", "wait", "undo", "update"} /\ f.i > 1) =>
                       f.alpha < f.beta
                /\ (f.pc = "ret" /\ f.i <= Len(f.moves)) => f.alpha >= f.beta

\* a second child is being searched in a window its parent has narrowed
C9_Witness ==
    /\ args.alpha <= args.beta
    /\ Len(stack) >= 2
    /\ stack[1].pc = "wait"
    /\ stack[1].i >= 2
    /\ stack[1].alpha > stack[1].alpha0
    /\ stack[2].pc = "entry"

\* C10: with alpha <= beta at the root, a call with depth >= 1 on a position
\* that is not over returns one of that position's legal moves; a null move
\* comes back only from depth 0 or a position that is over; the move the game
\* loop pushes is a legal move of the current position.
C10_MoveNullOnlyAtLeaf ==
    args.alpha <= args.beta =>
        /\ \A k \in 1..Len(stack) :
              (stack[k].pc = "ret" /\ stack[k].depth >= 1) =>
                  stack[k].best_move \in 1..NumLegal(seed, stack[k].path)
        /\ (Returned /\ args.depth >= 1 /\ ~IsGameOver(seed, Root)) =>
              result.move \in 1..NumLegal(seed, Root)
        /\ (Returned /\ result.move = None) =>
              (args.depth = 0 \/ IsGameOver(seed, Root))
        /\ status # "crashed"
        /\ status = "played" =>
              /\ Len(board) = 1
              /\ board[1] \in 1..NumLegal(seed, Root)

\* the game loop has pushed the move its depth-2 search returned
C10_Witness ==
    /\ status = "played"
    /\ board = <<result.move>>
    /\ result.move # None
    /\ hist.cutoffs > 0

====
